---- MODULE Spec2Model ----
(***************************************************************************)
(* A model of spotify_shutdown.py: one run of main().                      *)
(*                                                                         *)
(* The run is a sequence of steps, one per call or statement group of the  *)
(* script; pc names the source line the run is about to execute.  The      *)
(* environment supplies the two environment variables the flow branches    *)
(* on, the HTTP responses of the token and the player endpoint, the        *)
(* passage of time and the operator's interrupt (Ctrl-C).                  *)
(*                                                                         *)
(* Units.  Time is counted in ticks of 0.1 s, the period of time.sleep in  *)
(* the countdown loop.  Millisecond values are Python ints, which are      *)
(* unbounded; they are modelled as pairs (hi, lo) of value                 *)
(* hi * 10^9 + lo, so that the values at which float division stops being  *)
(* exact can be represented.                                               *)
(***************************************************************************)
EXTENDS Integers, Sequences, FiniteSets, TLC

VARIABLES
    REFRESH_TOKEN,       \* os.getenv("SPOTIFY_REFRESH_TOKEN")
    AUTHORIZATION_CODE,  \* os.getenv("SPOTIFY_AUTHORIZATION_CODE")
    pc,                  \* the line main() is about to execute, or "done"
    access_token,        \* main's local access_token
    refresh_resp,        \* the response to the refresh-token POST, if made
    boot_resp,           \* the response to the authorization-code POST, if made
    song_resp,           \* the response to the player GET, if made
    song_data,           \* main's local song_data
    remaining_seconds,   \* main's local remaining_seconds
    target_duration,     \* shutdown_computer's local, in seconds
    start_time,          \* shutdown_computer's local, in ticks
    now,                 \* time.time(), in ticks
    elapsed,             \* shutdown_computer's local, in ticks
    renders,             \* progress bars rendered inside the loop
    sleeps,              \* time.sleep(0.1) calls made
    net,                 \* the HTTP requests sent, in order
    out,                 \* the lines printed, in order (progress bars aside)
    boot_calls,          \* calls of get_initial_tokens
    sc_calls,            \* calls of shutdown_computer
    shutdown_cmds,       \* os.system("shutdown.exe /s /f /t 0") calls
    exit_status,         \* the process's exit status, -1 while it runs
    crashed,             \* the exception that ended the run, or "none"
    interrupt_at,        \* the pc at which the operator's interrupt arrived
    pending_int          \* an interrupt arrived that the interpreter has not raised yet

vars == <<REFRESH_TOKEN, AUTHORIZATION_CODE, pc, access_token, refresh_resp,
          boot_resp, song_resp, song_data, remaining_seconds, target_duration,
          start_time, now, elapsed, renders, sleeps, net, out,
          boot_calls, sc_calls, shutdown_cmds, exit_status, crashed,
          interrupt_at, pending_int>>

(***************************************************************************)
(* Bounds of the model.                                                    *)
(***************************************************************************)
\* The largest number of whole seconds a track of the main flow has left.
MaxSec == 10
\* The longest one time.sleep(0.1) may take, in ticks (it sleeps at least 0.1 s).
MaxSleepTicks == 2
\* The most time.time() advances between the statements of one loop round, in ticks.
MaxLagTicks == 1

\* Ticks per second: one tick is the 0.1 s of time.sleep(0.1).
TicksPerSecond == 10
\* Significant bits of a Python float (IEEE-754 binary64), the type of x / 1000.
MantissaBits == 53

None == "None"

(***************************************************************************)
(* Python ints wider than the checker's integers: (hi, lo) stands for      *)
(* hi * 10^9 + lo with 0 <= lo < 10^9.                                     *)
(***************************************************************************)
Base == 1000 * 1000 * 1000

W(h, l) == [hi |-> h, lo |-> l]

WZero == W(0, 0)

WideLeq(a, b) == a.hi < b.hi \/ (a.hi = b.hi /\ a.lo <= b.lo)

\* a - b for a >= b
WideSub(a, b) ==
    IF a.lo >= b.lo THEN W(a.hi - b.hi, a.lo - b.lo)
                    ELSE W(a.hi - b.hi - 1, a.lo + Base - b.lo)

WideInc(a) == IF a.lo + 1 = Base THEN W(a.hi + 1, 0) ELSE W(a.hi, a.lo + 1)

WideDouble(a) ==
    IF 2 * a.lo >= Base THEN W(2 * a.hi + 1, 2 * a.lo - Base)
                        ELSE W(2 * a.hi, 2 * a.lo)

\* the exact integer quotient and remainder of a by 1000
WideDiv1000(a) == W(a.hi \div 1000, (a.hi % 1000) * 1000000 + a.lo \div 1000)

WideMod1000(a) == a.lo % 1000

\* 2^44 = 17 592 186 044 416
TwoTo44 == W(17592, 186044416)

\* 2^e for e >= 44
RECURSIVE Pow2(_)
Pow2(e) == IF e = 44 THEN TwoTo44 ELSE WideDouble(Pow2(e - 1))

RECURSIVE IntPow2(_)
IntPow2(e) == IF e = 0 THEN 1 ELSE 2 * IntPow2(e - 1)

\* floor(log2 q) for 2^44 <= q < 2^MantissaBits
Exponent(q) ==
    CHOOSE e \in 44..(MantissaBits - 1) :
        WideLeq(Pow2(e), q) /\ ~WideLeq(Pow2(e + 1), q)

(***************************************************************************)
(* int(a / 1000) for an int a >= 0 (line 169).  a / 1000 is Python's true  *)
(* division: the float nearest to the exact quotient q + r/1000 (ties to   *)
(* the even mantissa); int() then drops the fraction.  Floats in           *)
(* [2^e, 2^(e+1)) are 2^(e-52) apart, so the quotient rounds up to the     *)
(* integer q + 1 exactly when 1 - r/1000 is less than half that spacing,   *)
(* 2^(e-53), and on a tie when q + 1 has the even mantissa.  Below 2^44    *)
(* half the spacing is at most 2^-10 < 1/1000 and the result is q.         *)
(***************************************************************************)
TrueDivInt(a) ==
    LET q == WideDiv1000(a)
        r == WideMod1000(a)
    IN  IF ~WideLeq(TwoTo44, q) THEN q
        ELSE LET shift == MantissaBits - Exponent(q)
                 lhs == (1000 - r) * IntPow2(shift)
             IN  IF lhs < 1000 THEN WideInc(q)
                 ELSE IF lhs = 1000 /\ (shift >= 2 \/ q.lo % 2 = 1)
                      THEN WideInc(q)
                      ELSE q

\* A signed wide int: its sign and its magnitude.
Signed(n, w) == [neg |-> n /\ w # WZero, hi |-> w.hi, lo |-> w.lo]

Mag(s) == W(s.hi, s.lo)

Positive(s) == ~s.neg /\ Mag(s) # WZero

\* remaining_ms = duration_ms - progress_ms (line 168)
RemainingMs(progress_ms, duration_ms) ==
    IF WideLeq(progress_ms, duration_ms)
    THEN Signed(FALSE, WideSub(duration_ms, progress_ms))
    ELSE Signed(TRUE, WideSub(progress_ms, duration_ms))

\* remaining_seconds = int(remaining_ms / 1000) (line 169); the division
\* rounds symmetrically and int() truncates towards zero.
RemainingSeconds(progress_ms, duration_ms) ==
    LET ms == RemainingMs(progress_ms, duration_ms)
    IN  Signed(ms.neg, TrueDivInt(Mag(ms)))

(***************************************************************************)
(* HTTP responses.  A body is a JSON object ("object") or text that is not *)
(* JSON ("text": an empty body, a gateway's HTML page); response.json()    *)
(* parses the first and raises on the second.                              *)
(***************************************************************************)
TokenBody(k, at, rt) == [kind |-> k, access_token |-> at, refresh_token |-> rt]

TokenText == TokenBody("text", None, None)

\* What the token endpoint may answer: 200 with a token object (the access
\* token present, empty or missing), 400 with Spotify's JSON error object,
\* 503 with a JSON error object or with a gateway's page that is not JSON, or
\* 200 with a body that is not JSON.
TokenResponses ==
    {[status |-> 200, body |-> b] :
        b \in {TokenBody("object", "X", "R"), TokenBody("object", "", "R"),
               TokenBody("object", None, None), TokenText}}
    \cup {[status |-> 400, body |-> TokenBody("object", None, None)]}
    \cup {[status |-> 503, body |-> b] :
            b \in {TokenBody("object", None, None), TokenText}}

NoTokenResp == [status |-> 0, body |-> TokenBody("None", None, None)]

SongBody(k, ip, it, d, p) ==
    [kind |-> k, is_playing |-> ip, item |-> it, duration_ms |-> d, progress_ms |-> p]

SongText == SongBody("text", "missing", "missing", WZero, WZero)

SongError == SongBody("object", "missing", "missing", WZero, WZero)

\* Python's None as the value of song_data
NoneSong == SongBody("None", "missing", "missing", WZero, WZero)

\* The track length of the main flow's snapshots, in ms.
FlowDuration == W(0, 300000)

\* The playback positions of the main flow: every whole number of seconds up
\* to MaxSec before the end, on the second and 1 ms short of the next one,
\* and one position past the end.
FlowProgress ==
    {W(0, FlowDuration.lo - (s * 1000 + f)) : s \in 0..MaxSec, f \in {0, 999}}
    \cup {W(0, FlowDuration.lo + 500)}

\* The 200-bodies of the player endpoint: a playing or paused track at each
\* position, a snapshot whose item is null or missing, and a body that is
\* not JSON.  204 comes with an empty body, 401 with Spotify's JSON error
\* object, 503 with a JSON error object or a gateway's page that is not JSON.
SongBodies ==
    {SongBody("object", "true", "obj", FlowDuration, p) : p \in FlowProgress}
    \cup {SongBody("object", ip, "obj", FlowDuration, W(0, 290000)) :
            ip \in {"false", "missing"}}
    \cup {SongBody("object", "true", it, WZero, W(0, 290000)) :
            it \in {"null", "missing"}}
    \cup {SongText}

PlayerResponses ==
    {[status |-> 200, body |-> b] : b \in SongBodies}
    \cup {[status |-> 204, body |-> SongText]}
    \cup {[status |-> 401, body |-> SongError]}
    \cup {[status |-> 503, body |-> b] : b \in {SongError, SongText}}

NoSongResp == [status |-> 0, body |-> NoneSong]

\* Python truthiness of a token string: None and "" are falsy.
Truthy(x) == x # None /\ x # ""

(***************************************************************************)
(* The state main() starts in.                                             *)
(***************************************************************************)
Locals ==
    /\ access_token = None
    /\ refresh_resp = NoTokenResp
    /\ boot_resp = NoTokenResp
    /\ song_resp = NoSongResp
    /\ remaining_seconds = Signed(FALSE, WZero)
    /\ target_duration = 0
    /\ start_time = 0
    /\ now = 0
    /\ elapsed = 0
    /\ renders = 0
    /\ sleeps = 0
    /\ net = <<>>
    /\ out = <<>>
    /\ boot_calls = 0
    /\ sc_calls = 0
    /\ shutdown_cmds = 0
    /\ exit_status = -1
    /\ crashed = "none"
    /\ interrupt_at = "none"
    /\ pending_int = FALSE

Init ==
    /\ REFRESH_TOKEN \in {None, "", "rt"}
    /\ AUTHORIZATION_CODE \in {None, "code"}
    /\ pc = "main146"
    /\ song_data = NoneSong
    /\ Locals

(***************************************************************************)
(* The three functions that talk to Spotify, as functions of the response  *)
(* they receive: the value returned, the lines printed, and the exception  *)
(* raised, if any ("none": the function returns).                          *)
(***************************************************************************)
\* Faulty variant of HasRefreshToken: tests "is not None", so that an empty
\* SPOTIFY_REFRESH_TOKEN counts as a token.
HasRefreshToken_NotNone == REFRESH_TOKEN # None

\* line 29: "if not REFRESH_TOKEN" is false
HasRefreshToken == Truthy(REFRESH_TOKEN)

\* line 59: "if not AUTHORIZATION_CODE" is false
HasAuthorizationCode == Truthy(AUTHORIZATION_CODE)

\* lines 43-52 of get_access_token_from_refresh_token
RefreshResult(resp) ==
    IF resp.status = 200
    THEN IF resp.body.kind = "object"
         THEN [token |-> resp.body.access_token,
               printed |-> <<"Successfully refreshed access token.">>,
               raised |-> "none"]
         ELSE [token |-> None, printed |-> <<>>, raised |-> "JSONDecodeError"]
    ELSE IF resp.body.kind = "object"
         THEN [token |-> None,
               printed |-> <<"Error refreshing token:", "error body">>,
               raised |-> "none"]
         ELSE [token |-> None,
               printed |-> <<"Error refreshing token:">>,
               raised |-> "JSONDecodeError"]

\* lines 75-86 of get_initial_tokens
InitialTokensResult(resp) ==
    IF resp.status = 200
    THEN IF resp.body.kind = "object"
         THEN [token |-> resp.body.access_token,
               printed |-> <<"First-time setup successful!",
                             "IMPORTANT: Set the SPOTIFY_REFRESH_TOKEN environment variable",
                             "Your Refresh Token is:">>,
               raised |-> "none"]
         ELSE [token |-> None, printed |-> <<>>, raised |-> "JSONDecodeError"]
    ELSE IF resp.body.kind = "object"
         THEN [token |-> None,
               printed |-> <<"Error getting initial tokens:", "error body">>,
               raised |-> "none"]
         ELSE [token |-> None,
               printed |-> <<"Error getting initial tokens:">>,
               raised |-> "JSONDecodeError"]

\* lines 95-103 of get_song_info
SongInfoResult(resp) ==
    IF resp.status = 200
    THEN IF resp.body.kind = "object"
         THEN [data |-> resp.body, printed |-> <<>>, raised |-> "none"]
         ELSE [data |-> NoneSong, printed |-> <<>>, raised |-> "JSONDecodeError"]
    ELSE IF resp.status = 204
    THEN [data |-> NoneSong,
          printed |-> <<"No song is currently playing or the player is inactive.">>,
          raised |-> "none"]
    ELSE IF resp.body.kind = "object"
         THEN [data |-> NoneSong,
               printed |-> <<"Error getting song info:", "error body">>,
               raised |-> "none"]
         ELSE [data |-> NoneSong,
               printed |-> <<"Error getting song info:">>,
               raised |-> "JSONDecodeError"]

\* Faulty variant of TokenMissing: tests "is None", so that an empty token passes.
TokenMissing_NoneOnly(tok) == tok = None

\* lines 148 and 151: "if not access_token"
TokenMissing(tok) == ~Truthy(tok)

\* line 160: "song_data and song_data.get('is_playing')"
PlayingNow(sd) == sd.kind = "object" /\ sd.is_playing = "true"

\* Faulty variant of HasTimeLeft: ">= 0" for "> 0".
HasTimeLeft_NotNegative(rs) == ~rs.neg

\* line 171: "if remaining_seconds > 0"
HasTimeLeft(rs) == Positive(rs)

\* Faulty variant of TargetDuration: the 2-second margin left out.
TargetDuration_NoMargin(seconds) == IF seconds > 0 THEN seconds ELSE 0

\* line 111: target_duration = max(0, seconds - 2)
TargetDuration(seconds) == IF seconds - 2 > 0 THEN seconds - 2 ELSE 0

\* Faulty variants of LoopDone: the loop left a second early, and "< 0" for "<= 0".
LoopDone_Early(remaining) == remaining <= TicksPerSecond

LoopDone_Strict(remaining) == remaining < 0

\* line 119: "if remaining <= 0: break", remaining in ticks
LoopDone(remaining) == remaining <= 0

\* lines 114-135: the statements inside the try block
InTry(p) == p \in {"sc116", "sc123", "sc132", "sc134"}

(***************************************************************************)
(* The steps of main().                                                    *)
(***************************************************************************)
env == <<REFRESH_TOKEN, AUTHORIZATION_CODE>>

countdown == <<target_duration, start_time, now, elapsed, renders, sleeps>>

\* The process ends with this status; exc is the uncaught exception, if any.
Exits(status, exc) == pc' = "done" /\ exit_status' = status /\ crashed' = exc

Goes(p) == pc' = p /\ UNCHANGED <<exit_status, crashed>>

\* line 146 with lines 27-52: access_token = get_access_token_from_refresh_token()
RefreshCall ==
    /\ pc = "main146"
    /\ IF ~HasRefreshToken
       THEN /\ access_token' = None
            /\ Goes("main148")
            /\ UNCHANGED <<refresh_resp, net, out>>
       ELSE \E resp \in TokenResponses :
            LET r == RefreshResult(resp)
            IN  /\ refresh_resp' = resp
                /\ net' = Append(net, "POST refresh_token")
                /\ out' = out \o r.printed
                /\ IF r.raised = "none"
                   THEN access_token' = r.token /\ Goes("main148")
                   ELSE UNCHANGED access_token /\ Exits(1, r.raised)
    /\ UNCHANGED <<env, boot_resp, song_resp, song_data, remaining_seconds,
                   countdown, boot_calls, sc_calls, shutdown_cmds,
                   interrupt_at, pending_int>>

\* lines 148-155 with lines 54-86: the first-time setup, which always ends the run
Bootstrap ==
    /\ pc = "main148"
    /\ TokenMissing(access_token)
    /\ boot_calls' = boot_calls + 1
    /\ IF ~HasAuthorizationCode
       THEN /\ out' = out \o <<"Attempting first-time setup to get tokens...",
                               "Error: Please provide the one-time AUTHORIZATION_CODE",
                               "Setup failed.">>
            /\ Exits(1, "none")
            /\ UNCHANGED <<access_token, boot_resp, net>>
       ELSE \E resp \in TokenResponses :
            LET r == InitialTokensResult(resp)
            IN  /\ boot_resp' = resp
                /\ net' = Append(net, "POST authorization_code")
                /\ IF r.raised # "none"
                   THEN /\ out' = out \o <<"Attempting first-time setup to get tokens...">>
                                      \o r.printed
                        /\ UNCHANGED access_token
                        /\ Exits(1, r.raised)
                   ELSE /\ access_token' = r.token
                        /\ IF TokenMissing(r.token)
                           THEN /\ out' = out \o <<"Attempting first-time setup to get tokens...">>
                                              \o r.printed \o <<"Setup failed.">>
                                /\ Exits(1, "none")
                           ELSE /\ out' = out \o <<"Attempting first-time setup to get tokens...">>
                                              \o r.printed
                                              \o <<"Please paste the refresh token into the script">>
                                /\ Exits(0, "none")
    /\ UNCHANGED <<env, refresh_resp, song_resp, song_data, remaining_seconds,
                   countdown, sc_calls, shutdown_cmds, interrupt_at, pending_int>>

\* lines 148 (token present) and 158 with lines 89-103:
\* song_data = get_song_info(access_token)
GetSongInfo ==
    /\ pc = "main148"
    /\ ~TokenMissing(access_token)
    /\ \E resp \in PlayerResponses :
        LET r == SongInfoResult(resp)
        IN  /\ song_resp' = resp
            /\ net' = Append(net, "GET currently-playing")
            /\ out' = out \o r.printed
            /\ IF r.raised = "none"
               THEN song_data' = r.data /\ Goes("main160")
               ELSE UNCHANGED song_data /\ Exits(1, r.raised)
    /\ UNCHANGED <<env, access_token, refresh_resp, boot_resp, remaining_seconds,
                   countdown, boot_calls, sc_calls, shutdown_cmds,
                   interrupt_at, pending_int>>

\* lines 160-179: the remaining time, and whether to count down
Decide ==
    /\ pc = "main160"
    /\ IF PlayingNow(song_data)
       THEN IF song_data.item = "null"
            THEN \* line 162: item is None, item.get raises
                 /\ Exits(1, "AttributeError")
                 /\ UNCHANGED <<remaining_seconds, out, sc_calls>>
            ELSE LET duration_ms == IF song_data.item = "obj"
                                    THEN song_data.duration_ms ELSE WZero
                     rs == RemainingSeconds(song_data.progress_ms, duration_ms)
                 IN  /\ remaining_seconds' = rs
                     /\ IF HasTimeLeft(rs)
                        THEN /\ out' = out \o <<"Currently playing:", "Song ends in">>
                             /\ sc_calls' = sc_calls + 1
                             /\ Goes("sc109")
                        ELSE /\ out' = Append(out, "Song is already over.")
                             /\ Exits(0, "none")
                             /\ UNCHANGED sc_calls
       ELSE /\ out' = Append(out, "Could not get song information.")
            /\ Exits(0, "none")
            /\ UNCHANGED <<remaining_seconds, sc_calls>>
    /\ UNCHANGED <<env, access_token, refresh_resp, boot_resp, song_resp, song_data,
                   countdown, net, boot_calls, shutdown_cmds,
                   interrupt_at, pending_int>>

(***************************************************************************)
(* shutdown_computer(remaining_seconds).                                   *)
(***************************************************************************)
\* the argument: the countdowns of the model are those of the main flow's tracks
seconds == remaining_seconds.lo

\* line 109
SC_Print ==
    /\ pc = "sc109"
    /\ remaining_seconds.hi = 0
    /\ out' = Append(out, "Windows will shut down in")
    /\ Goes("sc111")
    /\ UNCHANGED <<env, access_token, refresh_resp, boot_resp, song_resp, song_data,
                   remaining_seconds, countdown, net, boot_calls, sc_calls,
                   shutdown_cmds, interrupt_at, pending_int>>

\* lines 111-112
SC_Init ==
    /\ pc = "sc111"
    /\ target_duration' = TargetDuration(seconds)
    /\ start_time' = now
    /\ Goes("sc116")
    /\ UNCHANGED <<env, access_token, refresh_resp, boot_resp, song_resp, song_data,
                   remaining_seconds, now, elapsed, renders, sleeps, net, out,
                   boot_calls, sc_calls, shutdown_cmds, interrupt_at, pending_int>>

\* lines 115-120: the head of the loop; time.time() has moved on by up to
\* MaxLagTicks since it was last read or the sleep returned
SC_LoopCheck ==
    /\ pc = "sc116"
    /\ \E d \in 0..MaxLagTicks : now' = now + d
    /\ elapsed' = now' - start_time
    /\ IF LoopDone(target_duration * TicksPerSecond - elapsed')
       THEN Goes("sc134")
       ELSE Goes("sc123")
    /\ UNCHANGED <<env, access_token, refresh_resp, boot_resp, song_resp, song_data,
                   remaining_seconds, target_duration, start_time, renders,
                   sleeps, net, out, boot_calls, sc_calls, shutdown_cmds,
                   interrupt_at, pending_int>>

\* lines 123-130: the progress bar
SC_Render ==
    /\ pc = "sc123"
    /\ renders' = renders + 1
    /\ Goes("sc132")
    /\ UNCHANGED <<env, access_token, refresh_resp, boot_resp, song_resp, song_data,
                   remaining_seconds, target_duration, start_time, now, elapsed,
                   sleeps, net, out, boot_calls, sc_calls, shutdown_cmds,
                   interrupt_at, pending_int>>

\* line 132: time.sleep(0.1) returns after at least one tick
SC_Sleep ==
    /\ pc = "sc132"
    /\ \E d \in 1..MaxSleepTicks : now' = now + d
    /\ sleeps' = sleeps + 1
    /\ Goes("sc116")
    /\ UNCHANGED <<env, access_token, refresh_resp, boot_resp, song_resp, song_data,
                   remaining_seconds, target_duration, start_time, elapsed,
                   renders, net, out, boot_calls, sc_calls, shutdown_cmds,
                   interrupt_at, pending_int>>

\* lines 134-135: the full bar, the last statements of the try block
SC_Final ==
    /\ pc = "sc134"
    /\ out' = Append(out, "[==============================] 0.0s remaining")
    /\ Goes("sc141")
    /\ UNCHANGED <<env, access_token, refresh_resp, boot_resp, song_resp, song_data,
                   remaining_seconds, countdown, net, boot_calls, sc_calls,
                   shutdown_cmds, interrupt_at, pending_int>>

\* line 141: os.system("shutdown.exe /s /f /t 0"); then shutdown_computer and
\* main return, unless an interrupt the interpreter held back is raised now.
SC_Shutdown ==
    /\ pc = "sc141"
    /\ shutdown_cmds' = shutdown_cmds + 1
    /\ IF pending_int THEN Exits(130, "KeyboardInterrupt") ELSE Exits(0, "none")
    /\ pending_int' = FALSE
    /\ UNCHANGED <<env, access_token, refresh_resp, boot_resp, song_resp, song_data,
                   remaining_seconds, countdown, net, out, boot_calls, sc_calls,
                   interrupt_at>>

(***************************************************************************)
(* The operator's interrupt.  Python raises KeyboardInterrupt in the main  *)
(* thread at whatever statement it is executing.  Inside the try block     *)
(* (lines 114-135) the handler of lines 137-139 prints and exits 0.        *)
(* Anywhere else nothing catches it: the interpreter prints a traceback    *)
(* and ends the process as killed by SIGINT (status 130).  Before line 141 *)
(* the interpreter may also hold the signal back until os.system has       *)
(* returned, as it runs signal handlers only between bytecodes.            *)
(***************************************************************************)
Interrupt ==
    /\ pc # "done"
    /\ interrupt_at = "none"
    /\ interrupt_at' = pc
    /\ IF InTry(pc)
       THEN /\ out' = Append(out, "Shutdown cancelled by user.")
            /\ Exits(0, "none")
            /\ UNCHANGED pending_int
       ELSE IF pc = "sc141"
       THEN /\ \E held \in BOOLEAN :
                IF held THEN pending_int' = TRUE /\ Goes(pc)
                        ELSE UNCHANGED pending_int /\ Exits(130, "KeyboardInterrupt")
            /\ UNCHANGED out
       ELSE /\ Exits(130, "KeyboardInterrupt")
            /\ UNCHANGED <<out, pending_int>>
    /\ UNCHANGED <<env, access_token, refresh_resp, boot_resp, song_resp, song_data,
                   remaining_seconds, countdown, net, boot_calls, sc_calls,
                   shutdown_cmds>>

\* The steps the script itself takes.
Program ==
    \/ RefreshCall
    \/ Bootstrap
    \/ GetSongInfo
    \/ Decide
    \/ SC_Print
    \/ SC_Init
    \/ SC_LoopCheck
    \/ SC_Render
    \/ SC_Sleep
    \/ SC_Final
    \/ SC_Shutdown

Next == Program \/ Interrupt

Spec == Init /\ [][Next]_vars

\* The interpreter keeps executing the script until the process ends.
LiveSpec == Spec /\ WF_vars(Program)

(***************************************************************************)
(* The remaining-time calculation on its own: main() at line 160 with a    *)
(* snapshot of a playing track, over positions and lengths that include    *)
(* values beyond 2^44 seconds.                                             *)
(***************************************************************************)
CalcMs ==
    {W(h, l) : h \in {0, 17592186, 35184372},
               l \in {0, 999, 1000, 290000, 300000, 44416999, 88831999}}

CalcInit ==
    /\ REFRESH_TOKEN = "rt"
    /\ AUTHORIZATION_CODE \in {None, "code"}
    /\ pc = "main160"
    /\ \E d \in CalcMs, p \in CalcMs :
        /\ WideLeq(p, d)
        /\ song_data = SongBody("object", "true", "obj", d, p)
    /\ access_token = "X"
    /\ refresh_resp = [status |-> 200, body |-> TokenBody("object", "X", "R")]
    /\ boot_resp = NoTokenResp
    /\ song_resp = [status |-> 200, body |-> song_data]
    /\ remaining_seconds = Signed(FALSE, WZero)
    /\ target_duration = 0
    /\ start_time = 0
    /\ now = 0
    /\ elapsed = 0
    /\ renders = 0
    /\ sleeps = 0
    /\ net = <<"POST refresh_token", "GET currently-playing">>
    /\ out = <<"Successfully refreshed access token.">>
    /\ boot_calls = 0
    /\ sc_calls = 0
    /\ shutdown_cmds = 0
    /\ exit_status = -1
    /\ crashed = "none"
    /\ interrupt_at = "none"
    /\ pending_int = FALSE

CalcSpec == CalcInit /\ [][Decide]_vars

(***************************************************************************)
(* Properties.                                                             *)
(***************************************************************************)
Sent(req) == \E i \in 1..Len(net) : net[i] = req

Printed(line) == \E i \in 1..Len(out) : out[i] = line

\* A token request that returned HTTP 200 with a non-empty access_token.
Succeeded(resp) ==
    /\ resp.status = 200
    /\ resp.body.kind = "object"
    /\ resp.body.access_token \notin {None, ""}

\* C1: the shutdown command is issued at most once in a run, and only after
\* shutdown_computer's loop was left with elapsed >= target_duration (remaining
\* <= 0) and no interrupt arrived while the countdown ran.
C1_ShutdownOnceAfterCountdown ==
    /\ shutdown_cmds <= 1
    /\ shutdown_cmds = 1 =>
        /\ sc_calls = 1
        /\ pc = "done"
        /\ elapsed >= target_duration * TicksPerSecond
        /\ interrupt_at \in {"none", "sc141"}

C1_Witness ==
    /\ shutdown_cmds = 1
    /\ renders > 0
    /\ interrupt_at = "none"

\* C2: the player GET is sent only after a token request has succeeded (HTTP
\* 200 with a non-empty access_token); a run in which no token request
\* succeeds sends no player GET.
C2_TokenBeforePlayback ==
    \A i \in 1..Len(net) :
        net[i] = "GET currently-playing" =>
            /\ Succeeded(refresh_resp) \/ Succeeded(boot_resp)
            /\ \E j \in 1..(i - 1) :
                net[j] \in {"POST refresh_token", "POST authorization_code"}

C2_Witness ==
    /\ Sent("GET currently-playing")
    /\ pc = "main160"

\* C3: an interrupt that arrives between the start of shutdown_computer's wait
\* and the issuing of the shutdown command ends the process with status 0, and
\* the shutdown command is not issued in that run.
C3_InterruptExitsZero ==
    (pc = "done" /\ interrupt_at \in {"sc116", "sc123", "sc132", "sc134", "sc141"}) =>
        (exit_status = 0 /\ shutdown_cmds = 0)

\* C4: when the refresh-token flow yields no access token (no refresh token, a
\* status other than 200, or 200 without an access_token), main() calls the
\* bootstrap flow exactly once and the process exits, with status 0 if the
\* bootstrap produced an access token and 1 if not, without a player GET and
\* without the shutdown command.
C4_BootstrapOnceThenExit ==
    LET noToken ==
            \/ REFRESH_TOKEN \in {None, ""}
            \/ refresh_resp.status \notin {0, 200}
            \/ /\ refresh_resp.status = 200
               /\ refresh_resp.body.kind = "object"
               /\ refresh_resp.body.access_token \in {None, ""}
    IN  (pc = "done" /\ interrupt_at = "none" /\ noToken) =>
            /\ boot_calls = 1
            /\ exit_status = (IF Succeeded(boot_resp) THEN 0 ELSE 1)
            /\ ~Sent("GET currently-playing")
            /\ shutdown_cmds = 0

\* C5: for duration_ms >= progress_ms >= 0, the remaining_seconds main()
\* computes is floor((duration_ms - progress_ms) / 1000), and is >= 0.
C5_FloorSeconds ==
    (pc # "main160" /\ WideLeq(song_data.progress_ms, song_data.duration_ms)) =>
        /\ ~remaining_seconds.neg
        /\ Mag(remaining_seconds) =
              WideDiv1000(WideSub(song_data.duration_ms, song_data.progress_ms))

\* C6: with SPOTIFY_REFRESH_TOKEN unset or empty,
\* get_access_token_from_refresh_token returns None without sending the
\* refresh-token POST, printing anything or changing any other state.
C6_NoRefreshTokenNoCall ==
    REFRESH_TOKEN \in {None, ""} =>
        /\ ~Sent("POST refresh_token")
        /\ refresh_resp = NoTokenResp
        /\ pc = "main148" =>
            /\ access_token = None
            /\ net = <<>>
            /\ out = <<>>
            /\ exit_status = -1
            /\ crashed = "none"
            /\ boot_calls = 0

C6_Witness ==
    /\ REFRESH_TOKEN = ""
    /\ pc = "main148"

\* C7: for every response of the player endpoint whose status is not 200,
\* whatever its body, get_song_info returns None and raises nothing.
C7_NonOkReturnsNone ==
    song_resp.status \notin {0, 200} =>
        /\ song_data = NoneSong
        /\ crashed # "JSONDecodeError"

\* C8: main() calls shutdown_computer exactly when song_data is a snapshot
\* with is_playing true and the remaining_seconds it computed is > 0; in every
\* other run there is no countdown and the shutdown command is never issued.
C8_CountdownIffPlayingWithTimeLeft ==
    /\ sc_calls \in {0, 1}
    /\ sc_calls = 1 <=>
        /\ song_data.kind = "object"
        /\ song_data.is_playing = "true"
        /\ Positive(remaining_seconds)
    /\ sc_calls = 0 => (shutdown_cmds = 0 /\ pc \notin {"sc109", "sc111", "sc116",
                                                         "sc123", "sc132", "sc134",
                                                         "sc141"})
    /\ Printed("Song is already over.") => ~Positive(remaining_seconds)
    /\ Printed("Could not get song information.") =>
            (song_data.kind # "object" \/ song_data.is_playing # "true")

C8_Witness ==
    /\ sc_calls = 1
    /\ shutdown_cmds = 1

\* C9: target_duration is max(0, seconds - 2); the loop is left at the first
\* check at which elapsed >= target_duration and never goes round again once
\* that holds; and, unless interrupted, the countdown ends with the shutdown
\* command being issued.
C9_CountdownTerminates ==
    /\ [](pc \in {"sc116", "sc123", "sc132", "sc134", "sc141"} =>
            target_duration = (IF seconds >= 2 THEN seconds - 2 ELSE 0))
    /\ [][(pc = "sc116" /\ pc' = "sc134") =>
            elapsed' >= target_duration * TicksPerSecond]_vars
    /\ [][(pc = "sc116" /\ now - start_time >= target_duration * TicksPerSecond) =>
            (pc' # "sc123" /\ renders' = renders /\ sleeps' = sleeps)]_vars
    /\ (pc = "sc116") ~> (shutdown_cmds = 1 \/ interrupt_at # "none")

C9_Witness ==
    /\ seconds = 10
    /\ target_duration = 8
    /\ elapsed >= 8 * TicksPerSecond
    /\ shutdown_cmds = 1
    /\ interrupt_at = "none"

\* C10: a countdown started with remaining_seconds 1 or 2 has target_duration
\* 0, goes round the loop zero times (no progress bar, no sleep) and issues
\* the shutdown command at once, after the first read of time.time(); in
\* general the command is issued once elapsed >= seconds - 2, before the
\* reported remaining time is up.
C10_ShortTrackNoTicks ==
    /\ (sc_calls = 1 /\ seconds \in {1, 2}) =>
        /\ renders = 0
        /\ sleeps = 0
        /\ pc \notin {"sc109", "sc111"} => target_duration = 0
        /\ shutdown_cmds = 1 => now <= start_time + MaxLagTicks
    /\ shutdown_cmds = 1 => elapsed >= (seconds - 2) * TicksPerSecond

C10_Witness ==
    /\ shutdown_cmds = 1
    /\ seconds \in {1, 2}
    /\ renders = 0
    /\ elapsed < seconds * TicksPerSecond

====
